---- MODULE Spec2Model ----
(***************************************************************************)
(* Model of the FIA documents API (src/src/app.py and                      *)
(* src/src/utils/playwright_utils.py): the date normalizer                 *)
(* convert_fia_date_to_iso, the document extractor get_docs, the selector  *)
(* engine select_option_by_type and the orchestration flow                 *)
(* get_fia_documents.                                                      *)
(*                                                                         *)
(* Texts on which the code does character work (strip, split, startswith,  *)
(* replace, strptime) are sequences of one-character strings.  Option      *)
(* labels, which the code only compares, are TLA+ strings.                 *)
(***************************************************************************)
EXTENDS Integers, Sequences, FiniteSets, TLC

VARIABLES
    \* ---- date normalizer (SpecDate) ----
    dateIn,     \* the date_text argument
    dateOut,    \* [raised, text]: what convert_fia_date_to_iso did with it
    datePc,     \* "ready" | "done"
    \* ---- document extractor (SpecDocs) ----
    docPage,    \* the part of the page get_docs reads
    docOut,     \* [raised, docs]: what get_docs did with it
    docPc,      \* "ready" | "done"
    \* ---- orchestration flow (Spec, SpecConc) ----
    now,        \* datetime.now().year
    pages,      \* the browser pages created so far, by page id
    nPages,     \* how many pages were created
    pc,         \* each request's position in get_fia_documents
    args,       \* each request's query parameters
    locals,     \* each request's local variables
    pw,         \* each request's sync_playwright context
    browser,    \* each request's browser
    calls,      \* each request's calls of select_option_by_type and get_docs
    err,        \* the step whose exception ended the request, or ""
    response    \* each request's response body

dateVars == <<dateIn, dateOut, datePc>>
docVars == <<docPage, docOut, docPc>>
flowVars == <<now, pages, nPages, pc, args, locals, pw, browser, calls, err, response>>
vars == <<dateVars, docVars, flowVars>>

-----------------------------------------------------------------------------
(* Bounds *)

\* Longest free-form text drawn as a date string.
MaxTextLen == 2
\* Most list items in the document list container.
MaxItems == 2
\* Requests in flight at once.
NumRequests == 2

-----------------------------------------------------------------------------
(* Texts *)

WS == {" ", "\t", "\n"}

DigitChars == <<"0", "1", "2", "3", "4", "5", "6", "7", "8", "9">>

IsDigit(c) == \E n \in 1..10 : DigitChars[n] = c

DigitVal(c) == (CHOOSE n \in 1..10 : DigitChars[n] = c) - 1

TwoDigits(n) == <<DigitChars[((n \div 10) % 10) + 1], DigitChars[(n % 10) + 1]>>

FourDigits(n) == TwoDigits(n \div 100) \o TwoDigits(n % 100)

\* sub occurs in s at position i
OccursAt(s, sub, i) ==
    /\ i >= 1
    /\ i + Len(sub) - 1 <= Len(s)
    /\ SubSeq(s, i, i + Len(sub) - 1) = sub

\* Python: sub in s
Contains(s, sub) == \E i \in 1..(Len(s) + 1) : OccursAt(s, sub, i)

\* Python: s.startswith(sub)
StartsWith(s, sub) == OccursAt(s, sub, 1)

\* Python: s.replace(old, new), old non-empty: leftmost, non-overlapping
RECURSIVE Replace(_, _, _)
Replace(s, old, new) ==
    IF Len(s) < Len(old) THEN s
    ELSE IF OccursAt(s, old, 1)
         THEN new \o Replace(SubSeq(s, Len(old) + 1, Len(s)), old, new)
         ELSE <<Head(s)>> \o Replace(Tail(s), old, new)

RECURSIVE LStrip(_)
LStrip(s) == IF s # <<>> /\ Head(s) \in WS THEN LStrip(Tail(s)) ELSE s

RECURSIVE RStrip(_)
RStrip(s) ==
    IF s # <<>> /\ s[Len(s)] \in WS THEN RStrip(SubSeq(s, 1, Len(s) - 1)) ELSE s

\* Python: s.strip()
Strip(s) == RStrip(LStrip(s))

\* Python: s.split(c) for a one-character separator: every occurrence cuts,
\* so two separators in a row give an empty piece.
RECURSIVE SplitOn(_, _, _)
SplitOn(s, c, cur) ==
    IF s = <<>> THEN <<cur>>
    ELSE IF Head(s) = c THEN <<cur>> \o SplitOn(Tail(s), c, <<>>)
         ELSE SplitOn(Tail(s), c, Append(cur, Head(s)))

Split(s, c) == SplitOn(s, c, <<>>)

\* All sequences over S of length at most n.
SeqsUpTo(S, n) == UNION {[1..k -> S] : k \in 0..n}

-----------------------------------------------------------------------------
(* Date normalizer: convert_fia_date_to_iso *)

MarkerText == <<"P", "u", "b", "l", "i", "s", "h", "e", "d", " ", "o", "n">>
MarkerPrefix == MarkerText \o <<" ">>
ZoneSuffix == <<" ", "C", "E", "T">>

\* date_text.replace("Published on ", "").replace(" CET", "")
DatePart(t) == Replace(Replace(t, MarkerPrefix, <<>>), ZoneSuffix, <<>>)

\* The regular expressions strptime builds for the directives of
\* "%d.%m.%y %H:%M"; each gives the lengths the directive can take at i.
DigitAt(s, i) == i >= 1 /\ i <= Len(s) /\ IsDigit(s[i])

Only(v, cond) == IF cond THEN {v} ELSE {}

\* %d: 3[0-1] | [1-2]\d | 0[1-9] | [1-9] | " "[1-9]
DayLens(s, i) ==
    Only(2, /\ DigitAt(s, i) /\ DigitAt(s, i + 1)
            /\ \/ s[i] = "3" /\ s[i + 1] \in {"0", "1"}
               \/ s[i] \in {"1", "2"}
               \/ s[i] = "0" /\ s[i + 1] # "0")
    \cup Only(1, DigitAt(s, i) /\ s[i] # "0")
    \cup Only(2, /\ i >= 1 /\ i + 1 <= Len(s) /\ s[i] = " "
                 /\ DigitAt(s, i + 1) /\ s[i + 1] # "0")

\* %m: 1[0-2] | 0[1-9] | [1-9]
MonthLens(s, i) ==
    Only(2, /\ DigitAt(s, i) /\ DigitAt(s, i + 1)
            /\ \/ s[i] = "1" /\ s[i + 1] \in {"0", "1", "2"}
               \/ s[i] = "0" /\ s[i + 1] # "0")
    \cup Only(1, DigitAt(s, i) /\ s[i] # "0")

\* %y: \d\d
YearLens(s, i) == Only(2, DigitAt(s, i) /\ DigitAt(s, i + 1))

\* %H: 2[0-3] | [0-1]\d | \d
HourLens(s, i) ==
    Only(2, /\ DigitAt(s, i) /\ DigitAt(s, i + 1)
            /\ \/ s[i] = "2" /\ s[i + 1] \in {"0", "1", "2", "3"}
               \/ s[i] \in {"0", "1"})
    \cup Only(1, DigitAt(s, i))

\* the last directive: nothing follows it, so the first alternative that
\* matches is the one taken ([0-5]\d before \d)
MinuteLen(s, i) ==
    IF DigitAt(s, i) /\ DigitAt(s, i + 1) /\ DigitVal(s[i]) <= 5 THEN 2
    ELSE IF DigitAt(s, i) THEN 1
    ELSE 0

\* the format's blank is \s+
BlankLens(s, i) ==
    {n \in 1..Len(s) : \A k \in i..(i + n - 1) : k <= Len(s) /\ s[k] \in WS}

\* the value of the digits of s[i..i+n-1]; a leading blank (" 7") counts 0
RECURSIVE NumAt(_, _, _)
NumAt(s, i, n) ==
    IF n = 0 THEN 0
    ELSE 10 * NumAt(s, i, n - 1)
         + (IF IsDigit(s[i + n - 1]) THEN DigitVal(s[i + n - 1]) ELSE 0)

IsLeap(y) == (y % 4 = 0 /\ y % 100 # 0) \/ y % 400 = 0

DaysInMonth(y, m) ==
    IF m = 2 THEN (IF IsLeap(y) THEN 29 ELSE 28)
    ELSE IF m \in {4, 6, 9, 11} THEN 30 ELSE 31

\* %y: 69..99 are 19xx, 00..68 are 20xx
FullYear(yy) == IF yy <= 68 THEN 2000 + yy ELSE 1900 + yy

\* every way the pattern matches a prefix of s: the fields and where it ends
Matches(s) ==
    {[day |-> NumAt(s, 1, ld), month |-> NumAt(s, ld + 2, lm),
      year |-> FullYear(NumAt(s, ld + lm + 3, 2)),
      hour |-> NumAt(s, ld + lm + 5 + lb, lh),
      minute |-> NumAt(s, ld + lm + 6 + lb + lh, MinuteLen(s, ld + lm + 6 + lb + lh)),
      end |-> ld + lm + 5 + lb + lh + MinuteLen(s, ld + lm + 6 + lb + lh)] :
        <<ld, lm, lb, lh>> \in
            {q \in (1..2) \X (1..2) \X (1..Len(s)) \X (1..2) :
                /\ q[1] \in DayLens(s, 1)
                /\ OccursAt(s, <<".">>, q[1] + 1)
                /\ q[2] \in MonthLens(s, q[1] + 2)
                /\ OccursAt(s, <<".">>, q[1] + q[2] + 2)
                /\ 2 \in YearLens(s, q[1] + q[2] + 3)
                /\ q[3] \in BlankLens(s, q[1] + q[2] + 5)
                /\ q[4] \in HourLens(s, q[1] + q[2] + 5 + q[3])
                /\ OccursAt(s, <<":">>, q[1] + q[2] + 5 + q[3] + q[4])
                /\ MinuteLen(s, q[1] + q[2] + 6 + q[3] + q[4]) > 0}}

\* datetime.strptime(date_part, "%d.%m.%y %H:%M"): a datetime, or ValueError
\* when the pattern does not match, data remains after the match, or the day
\* is not a day of the month.
Strptime(s) ==
    LET ms == {m \in Matches(s) :
                   /\ m.end = Len(s)
                   /\ m.day >= 1 /\ m.day <= DaysInMonth(m.year, m.month)}
    IN IF ms = {} THEN [ok |-> FALSE, dt |-> <<>>]
       ELSE [ok |-> TRUE, dt |-> CHOOSE m \in ms : TRUE]

\* dt.isoformat() of a datetime without seconds or microseconds
IsoFormat(dt) ==
    FourDigits(dt.year) \o <<"-">> \o TwoDigits(dt.month) \o <<"-">>
    \o TwoDigits(dt.day) \o <<"T">> \o TwoDigits(dt.hour) \o <<":">>
    \o TwoDigits(dt.minute) \o <<":", "0", "0">>

\* a handler that returns the text it tried to parse
OnParseFailureStripped(t) == [raised |-> FALSE, text |-> DatePart(t)]

\* what the handler "except ValueError" does with a failed parse
OnParseFailure(t) == [raised |-> FALSE, text |-> t]

convert_fia_date_to_iso(t) ==
    IF t = <<>> \/ ~Contains(t, MarkerText) THEN [raised |-> FALSE, text |-> t]
    ELSE LET p == Strptime(DatePart(t))
         IN IF p.ok THEN [raised |-> FALSE, text |-> IsoFormat(p.dt)]
            ELSE OnParseFailure(t)

-----------------------------------------------------------------------------
(* Document extractor: get_docs *)

None == [some |-> FALSE, text |-> <<>>]
Some(t) == [some |-> TRUE, text |-> t]

UnknownText == <<"u", "n", "k", "n", "o", "w", "n">>

FIA_ORIGIN ==
    <<"h", "t", "t", "p", "s", ":", "/", "/", "w", "w", "w", ".",
      "f", "i", "a", ".", "c", "o", "m">>

\* link_element.get_attribute('href') if link_element else ""
ItemHref(item) ==
    IF item.anchor = "none" THEN Some(<<>>)
    ELSE IF item.anchor = "nohref" THEN None
    ELSE Some(item.href)

\* an extractor that leaves every href as it is
ResolveUrlPassThrough(href) == href

\* if href and href.startswith('/'): origin + href, else href
ResolveUrl(href) ==
    IF href.some /\ href.text # <<>> /\ StartsWith(href.text, <<"/">>)
    THEN Some(FIA_ORIGIN \o href.text)
    ELSE href

\* element.inner_text().strip() if element else ""
StrippedText(el) == IF el.some THEN Strip(el.text) ELSE <<>>

\* an extractor that appends every item
KeepItemAlways(title) == TRUE

\* "if title:" decides whether the item's record is appended
KeepItem(title) == title # <<>>

\* the body of the loop over document_items, from item k on
RECURSIVE DocLoop(_, _, _)
DocLoop(items, k, documents) ==
    IF k > Len(items) THEN [raised |-> FALSE, docs |-> documents]
    ELSE LET item == items[k]
             url == ResolveUrl(ItemHref(item))
             title == StrippedText(item.title)
             published_raw == StrippedText(item.published)
             date == convert_fia_date_to_iso(published_raw)
         IN IF date.raised THEN [raised |-> TRUE, docs |-> documents]
            ELSE IF KeepItem(title)
                 THEN DocLoop(items, k + 1,
                              Append(documents,
                                     [title |-> title, published |-> published_raw,
                                      date |-> date.text, url |-> url]))
                 ELSE DocLoop(items, k + 1, documents)

\* page.query_selector_all(".form-type-select")[0].query_selector("select option")
\*     .inner_text().split(' ')[1]
\* IndexError on an empty list or a text of one piece, AttributeError on None.
SeasonYear(pg) ==
    IF pg.groups = <<>> THEN [raised |-> TRUE, text |-> <<>>]
    ELSE IF ~pg.groups[1].some THEN [raised |-> TRUE, text |-> <<>>]
    ELSE LET pieces == Split(pg.groups[1].text, " ")
         IN IF Len(pieces) < 2 THEN [raised |-> TRUE, text |-> <<>>]
            ELSE [raised |-> FALSE, text |-> pieces[2]]

get_docs(pg) ==
    LET season_year == SeasonYear(pg)
    IN IF season_year.raised THEN [raised |-> TRUE, docs |-> <<>>]
       ELSE DocLoop(pg.items, 1,
                <<[season_year |-> IF season_year.text # <<>>
                                   THEN season_year.text ELSE UnknownText,
                   gp_name |-> IF pg.eventTitle.some
                               THEN pg.eventTitle.text ELSE UnknownText]>>)

-----------------------------------------------------------------------------
(* Selector engine: select_option_by_type *)

\* first_option.inner_text() if first_option else ""
CurrentSelectType(w) == IF w.hasFirst THEN w.firstText ELSE ""

\* "if current_select_type == select_field_name"
IsTheSelect(w, select_field_name) == CurrentSelectType(w) = select_field_name

\* select_element.select_option(label=option_text): the option is applied, or
\* Playwright raises TimeoutError because the select never offers the label.
SelectOption(ws, k, option_text) ==
    IF option_text \in ws[k].options
    THEN [outcome |-> "true",
          wrappers |-> [ws EXCEPT ![k].value = option_text,
                                  ![k].applied = Append(@, option_text)]]
    ELSE [outcome |-> "raise", wrappers |-> ws]

\* the loop over select_wrappers, from wrapper k on; "false" is "return False"
RECURSIVE SelectFrom(_, _, _, _)
SelectFrom(ws, k, select_field_name, option_text) ==
    IF k > Len(ws) THEN [outcome |-> "false", wrappers |-> ws]
    ELSE IF ws[k].select /\ IsTheSelect(ws[k], select_field_name)
         THEN SelectOption(ws, k, option_text)
         ELSE SelectFrom(ws, k + 1, select_field_name, option_text)

select_option_by_type(ws, select_field_name, option_text) ==
    SelectFrom(ws, 1, select_field_name, option_text)

-----------------------------------------------------------------------------
(* Orchestration flow: get_fia_documents *)

Requests == 1..NumRequests
PageIds == 1..NumRequests

SELECT_FIELD_SEASON_DEFAULT_VALUE == "Season"
SELECT_FIELD_CHAMPIONSHIP_DEFAULT_VALUE == "Championship"
SELECT_FIELD_EVENT_DEFAULT_VALUE == "Event"

\* f"SEASON {year}"
SeasonLabel(year) == "SEASON " \o ToString(year)

CHAMPIONSHIP_FALLBACK_VALUE == "FIA Formula One World Championship"
EVENT_FALLBACK_VALUE == ""

\* a query parameter the request does not carry
Absent == "<absent>"

\* request.args.get(name, default)
ArgsGet(v, default) == IF v = Absent THEN default ELSE v

\* a test that lets the empty text through
TruthyAlways(text) == TRUE

\* "if season:", "if championship:", "if event:"
Truthy(text) == text # ""

\* a fallback that names the running year again
FallbackYearSame(current_year) == current_year

\* the year the fallback label names: previous_year = current_year - 1
FallbackYear(current_year) == current_year - 1

\* ---- what the site can serve ----

ClockYears == 2025..2026

Wrapper(field, options) ==
    [select |-> TRUE, hasFirst |-> TRUE, firstText |-> field,
     options |-> options, value |-> field, applied |-> <<>>]

\* a wrapper that holds no select, and a select with no option of value 0
WrapperNoSelect ==
    [select |-> FALSE, hasFirst |-> FALSE, firstText |-> "",
     options |-> {}, value |-> "", applied |-> <<>>]
WrapperNoFirst ==
    [select |-> TRUE, hasFirst |-> FALSE, firstText |-> "",
     options |-> {"Monaco Grand Prix"}, value |-> "", applied |-> <<>>]

SeasonSelect == Wrapper("Season", {SeasonLabel(y) : y \in 2024..2026})
\* the running year's season is not published yet
OldSeasonSelect == Wrapper("Season", {SeasonLabel(y) : y \in 2023..2024})
ChampionshipSelect == Wrapper("Championship", {CHAMPIONSHIP_FALLBACK_VALUE})
EventSelect == Wrapper("Event", {"Monaco Grand Prix"})

DomGood ==
    [eventTitle |-> Some(<<"G", "P">>),
     groups |-> <<Some(<<"S", " ", "2", "5">>)>>,
     items |-> <<[anchor |-> "href", href |-> <<"/", "d">>,
                  title |-> Some(<<"A">>), published |-> None]>>]
DomNoGroup == [eventTitle |-> None, groups |-> <<>>, items |-> <<>>]

\* wrappers: the dropdown wrappers rendered when the page loads;
\* pending: those the site renders later
Layouts ==
    {[wrappers |-> <<WrapperNoSelect, SeasonSelect, ChampionshipSelect, EventSelect>>,
      pending |-> <<>>],
     [wrappers |-> <<EventSelect, WrapperNoFirst, ChampionshipSelect, OldSeasonSelect>>,
      pending |-> <<>>],
     [wrappers |-> <<ChampionshipSelect, EventSelect>>, pending |-> <<>>],
     [wrappers |-> <<ChampionshipSelect>>, pending |-> <<SeasonSelect>>],
     [wrappers |-> <<>>, pending |-> <<>>]}

SitePages ==
    {[wrappers |-> l.wrappers, pending |-> l.pending, dom |-> d] :
        l \in Layouts, d \in {DomGood, DomNoGroup}}

NoArgs == [season |-> Absent, championship |-> Absent, event |-> Absent]

RequestArgs ==
    [season : {Absent, "", SeasonLabel(2026), SeasonLabel(2099)},
     championship : {Absent, "", "FIA Formula 2 Championship"},
     event : {Absent, "", "Monaco Grand Prix", "Mars Grand Prix"}]

\* the narrower choice of the concurrent specification: a page that serves
\* the request, and one whose Season select comes late and lacks the running
\* year's season
ConcPages ==
    {[wrappers |-> <<SeasonSelect, ChampionshipSelect, EventSelect>>,
      pending |-> <<>>, dom |-> DomGood],
     [wrappers |-> <<ChampionshipSelect>>,
      pending |-> <<OldSeasonSelect>>, dom |-> DomNoGroup]}
ConcArgs == {NoArgs}

\* ---- state ----

NoPage ==
    [creator |-> 0, touchedBy |-> {}, wrappers |-> <<>>, pending |-> <<>>,
     dom |-> DomNoGroup]
NoLocals ==
    [season |-> "", championship |-> "", event |-> "", season_selected |-> FALSE,
     fallback_season |-> "", page |-> 0, documents |-> <<>>]
NoResponse == [sent |-> FALSE, message |-> "", documents |-> <<>>]

\* one entry of a request's call log; year is the calendar year at the call
CallOf(fn, field, label, result) ==
    [fn |-> fn, field |-> field, label |-> label, result |-> result, year |-> now]

\* a browser that hands every request the same page
NewPageIdShared(n) == 1

\* the id browser.new_page() gives the page it creates
NewPageId(n) == n + 1

\* leaving "with sync_playwright() as p": the driver stops and takes the
\* browser it launched with it
ExitPlaywright(b) == IF b = "open" THEN "closed" ELSE b

\* an exception leaves the with block and the handler
Raise(r, step) ==
    /\ pc' = [pc EXCEPT ![r] = "raised"]
    /\ err' = [err EXCEPT ![r] = step]
    /\ pw' = [pw EXCEPT ![r] = IF @ = "running" THEN "stopped" ELSE @]
    /\ browser' = [browser EXCEPT ![r] = ExitPlaywright(@)]

Touch(pg, r) == [pg EXCEPT !.touchedBy = @ \cup {r}]

\* ---- the steps of get_fia_documents, for request r ----

\* lines 45-54: the parameters, with their defaults
Receive(r, choices) ==
    /\ pc[r] = "idle"
    /\ \E a \in choices :
        /\ args' = [args EXCEPT ![r] = a]
        /\ locals' = [locals EXCEPT ![r] =
              [NoLocals EXCEPT
                  !.season = ArgsGet(a.season, SeasonLabel(now)),
                  !.championship = ArgsGet(a.championship, CHAMPIONSHIP_FALLBACK_VALUE),
                  !.event = ArgsGet(a.event, EVENT_FALLBACK_VALUE)]]
    /\ pc' = [pc EXCEPT ![r] = "launch"]
    /\ UNCHANGED <<now, pages, nPages, pw, browser, calls, err, response, dateVars, docVars>>

\* lines 56-57: enter the playwright context and launch the browser
Launch(r) ==
    /\ pc[r] = "launch"
    /\ \/ /\ pw' = [pw EXCEPT ![r] = "running"]
          /\ browser' = [browser EXCEPT ![r] = "open"]
          /\ pc' = [pc EXCEPT ![r] = "new_page"]
          /\ UNCHANGED err
       \/ /\ pc' = [pc EXCEPT ![r] = "raised"]
          /\ err' = [err EXCEPT ![r] = "launch"]
          /\ pw' = [pw EXCEPT ![r] = "stopped"]
          /\ browser' = [browser EXCEPT ![r] = ExitPlaywright(@)]
    /\ UNCHANGED <<now, pages, nPages, args, locals, calls, response, dateVars, docVars>>

\* line 58: page = browser.new_page()
NewPage(r) ==
    /\ pc[r] = "new_page"
    /\ LET id == NewPageId(nPages)
       IN /\ id \in PageIds
          /\ pages' = [pages EXCEPT ![id] = [NoPage EXCEPT !.creator = r]]
          /\ locals' = [locals EXCEPT ![r].page = id]
    /\ nPages' = nPages + 1
    /\ pc' = [pc EXCEPT ![r] = "goto"]
    /\ UNCHANGED <<now, args, pw, browser, calls, err, response, dateVars, docVars>>

\* line 60: page.goto(FIA_DOCUMENTS_URL, wait_until='networkidle')
Goto(r, choices) ==
    /\ pc[r] = "goto"
    /\ \/ /\ \E site \in choices :
                pages' = [pages EXCEPT ![locals[r].page] =
                    [Touch(@, r) EXCEPT !.wrappers = site.wrappers,
                                        !.pending = site.pending,
                                        !.dom = site.dom]]
          /\ pc' = [pc EXCEPT ![r] = "wait_for_selector"]
          /\ UNCHANGED <<pw, browser, err>>
       \/ /\ Raise(r, "goto")
          /\ pages' = [pages EXCEPT ![locals[r].page] = Touch(@, r)]
    /\ UNCHANGED <<now, nPages, args, locals, calls, response, dateVars, docVars>>

\* line 62: page.wait_for_selector('.select-field-wrapper'), TimeoutError when
\* no wrapper shows up
WaitForSelector(r) ==
    /\ pc[r] = "wait_for_selector"
    /\ pages' = [pages EXCEPT ![locals[r].page] = Touch(@, r)]
    /\ IF pages[locals[r].page].wrappers # <<>>
       THEN /\ pc' = [pc EXCEPT ![r] = "season"]
            /\ UNCHANGED <<pw, browser, err>>
       ELSE Raise(r, "wait_for_selector")
    /\ UNCHANGED <<now, nPages, args, locals, calls, response, dateVars, docVars>>

\* one call of select_option_by_type on the request's page; next maps the
\* call's outcome to the next position
CallSelect(r, field, label, next) ==
    LET p == locals[r].page
        res == select_option_by_type(pages[p].wrappers, field, label)
    IN /\ pages' = [pages EXCEPT ![p] = [Touch(@, r) EXCEPT !.wrappers = res.wrappers]]
       /\ calls' = [calls EXCEPT ![r] = Append(@, CallOf("select", field, label, res.outcome))]
       /\ IF res.outcome = "raise"
          THEN Raise(r, "select")
          ELSE /\ pc' = [pc EXCEPT ![r] = next[res.outcome]]
               /\ UNCHANGED <<pw, browser, err>>

Skip(r, next) ==
    /\ pc' = [pc EXCEPT ![r] = next]
    /\ UNCHANGED <<pages, calls, pw, browser, err, dateVars, docVars>>

\* a fallback that is tried again when it fails
AfterFallbackRetry == [true |-> "fallback_wait", false |-> "fallback"]

\* where the flow goes after the first Season call (line 76) and after the
\* fallback call (lines 83, 89)
AfterSeason == [true |-> "championship", false |-> "fallback"]

AfterFallback == [true |-> "fallback_wait", false |-> "championship"]
AfterChampionship == [true |-> "event", false |-> "event"]
AfterEvent == [true |-> "get_docs", false |-> "get_docs"]

\* lines 72-73
SelectSeason(r) ==
    /\ pc[r] = "season"
    /\ IF Truthy(locals[r].season)
       THEN /\ CallSelect(r, SELECT_FIELD_SEASON_DEFAULT_VALUE, locals[r].season,
                          AfterSeason)
            /\ locals' = [locals EXCEPT ![r].season_selected =
                  (select_option_by_type(pages[locals[r].page].wrappers,
                                         SELECT_FIELD_SEASON_DEFAULT_VALUE,
                                         locals[r].season).outcome = "true")]
       ELSE /\ Skip(r, "championship")
            /\ UNCHANGED locals
    /\ UNCHANGED <<now, nPages, args, response, dateVars, docVars>>

\* lines 76-85, 89-90
SelectFallback(r) ==
    /\ pc[r] = "fallback"
    /\ LET fallback_season == SeasonLabel(FallbackYear(now))
           p == locals[r].page
           res == select_option_by_type(pages[p].wrappers,
                                        SELECT_FIELD_SEASON_DEFAULT_VALUE, fallback_season)
       IN /\ CallSelect(r, SELECT_FIELD_SEASON_DEFAULT_VALUE, fallback_season, AfterFallback)
          /\ locals' = [locals EXCEPT
                ![r].fallback_season = fallback_season,
                ![r].season_selected = (res.outcome = "true"),
                ![r].season = IF res.outcome = "true" THEN fallback_season ELSE @]
    /\ UNCHANGED <<now, nPages, args, response, dateVars, docVars>>

\* lines 87-88: page.wait_for_selector('.select-field-wrapper', timeout=1000),
\* which the page meets in time or not (the selection may navigate)
FallbackWait(r) ==
    /\ pc[r] = "fallback_wait"
    /\ pages' = [pages EXCEPT ![locals[r].page] = Touch(@, r)]
    /\ \/ /\ pc' = [pc EXCEPT ![r] = "championship"]
          /\ UNCHANGED <<pw, browser, err>>
       \/ Raise(r, "fallback_wait")
    /\ UNCHANGED <<now, nPages, args, locals, calls, response, dateVars, docVars>>

\* lines 92-93
SelectChampionship(r) ==
    /\ pc[r] = "championship"
    /\ IF Truthy(locals[r].championship)
       THEN CallSelect(r, SELECT_FIELD_CHAMPIONSHIP_DEFAULT_VALUE,
                       locals[r].championship, AfterChampionship)
       ELSE Skip(r, "event")
    /\ UNCHANGED <<now, nPages, args, locals, response, dateVars, docVars>>

\* lines 95-98
SelectEvent(r) ==
    /\ pc[r] = "event"
    /\ IF Truthy(locals[r].event)
       THEN CallSelect(r, SELECT_FIELD_EVENT_DEFAULT_VALUE, locals[r].event, AfterEvent)
       ELSE Skip(r, "get_docs")
    /\ UNCHANGED <<now, nPages, args, locals, response, dateVars, docVars>>

\* line 103: documents = get_docs(page=page)
GetDocs(r) ==
    /\ pc[r] = "get_docs"
    /\ LET p == locals[r].page
           out == get_docs(pages[p].dom)
       IN /\ pages' = [pages EXCEPT ![p] = Touch(@, r)]
          /\ calls' = [calls EXCEPT ![r] =
                Append(@, CallOf("get_docs", "", "",
                                 IF out.raised THEN "raise" ELSE "true"))]
          /\ IF out.raised
             THEN /\ Raise(r, "get_docs")
                  /\ UNCHANGED locals
             ELSE /\ locals' = [locals EXCEPT ![r].documents = out.docs]
                  /\ pc' = [pc EXCEPT ![r] = "close"]
                  /\ UNCHANGED <<pw, browser, err>>
    /\ UNCHANGED <<now, nPages, args, response, dateVars, docVars>>

\* lines 105-119: browser.close(), leave the with block, send the response
Close(r) ==
    /\ pc[r] = "close"
    /\ browser' = [browser EXCEPT ![r] = "closed"]
    /\ pw' = [pw EXCEPT ![r] = "stopped"]
    /\ response' = [response EXCEPT ![r] =
          [sent |-> TRUE, message |-> "FIA documents retrieved",
           documents |-> locals[r].documents]]
    /\ pc' = [pc EXCEPT ![r] = "returned"]
    /\ UNCHANGED <<now, pages, nPages, args, locals, calls, err, dateVars, docVars>>

\* ---- the environment ----

\* the site renders a dropdown it had not rendered yet
Render(p) ==
    /\ pages[p].creator # 0
    /\ browser[pages[p].creator] = "open"
    /\ pages[p].pending # <<>>
    /\ pages' = [pages EXCEPT ![p].wrappers = Append(@, Head(pages[p].pending)),
                              ![p].pending = Tail(@)]
    /\ UNCHANGED <<now, nPages, pc, args, locals, pw, browser, calls, err, response, dateVars, docVars>>

\* New Year
Tick ==
    /\ now + 1 \in ClockYears
    /\ now' = now + 1
    /\ UNCHANGED <<pages, nPages, pc, args, locals, pw, browser, calls, err, response, dateVars, docVars>>

-----------------------------------------------------------------------------
(* Inputs of the extractor and of the normalizer *)

Hrefs == {<<>>, <<"/", "d">>, <<"h", ":", "/", "d">>}
Anchors ==
    {[anchor |-> "none", href |-> <<>>], [anchor |-> "nohref", href |-> <<>>]}
    \cup {[anchor |-> "href", href |-> h] : h \in Hrefs}

GoodDate ==
    MarkerPrefix
    \o <<"2", "7", ".", "0", "7", ".", "2", "5", " ", "1", "9", ":", "5", "8">>
    \o ZoneSuffix

\* items whose title is kept: one for each anchor
KeptItems ==
    {[anchor |-> a.anchor, href |-> a.href,
      title |-> IF a.anchor = "href" THEN Some(<<" ", "A", " ">>) ELSE Some(<<"B">>),
      published |-> IF a.href = <<>> THEN Some(<<" ">> \o GoodDate) ELSE Some(MarkerText)] :
        a \in Anchors}

\* items with a missing, empty or blank title
DroppedItems ==
    {[anchor |-> "href", href |-> <<"/", "d">>, title |-> None,
      published |-> Some(GoodDate)],
     [anchor |-> "href", href |-> <<"/", "d">>, title |-> Some(<<>>),
      published |-> None],
     [anchor |-> "none", href |-> <<>>, title |-> Some(<<" ", "\n">>),
      published |-> Some(<<"x">>)]}

Items == KeptItems \cup DroppedItems

\* the event title and the select-type filter groups
Headers ==
    {[eventTitle |-> Some(<<"G", "P">>), groups |-> <<Some(<<"S", " ", "2", "5">>)>>],
     [eventTitle |-> None, groups |-> <<Some(<<"S", " ", "2", "5">>), None>>],
     [eventTitle |-> None, groups |-> <<Some(<<"S", " ", " ", "2">>)>>],
     [eventTitle |-> Some(<<>>), groups |-> <<Some(<<"S">>)>>],
     [eventTitle |-> None, groups |-> <<None>>],
     [eventTitle |-> None, groups |-> <<>>]}

DocPages ==
    {[eventTitle |-> h.eventTitle, groups |-> h.groups, items |-> i] :
        h \in Headers, i \in SeqsUpTo(Items, MaxItems)}

DateDays == {<<"2", "7">>, <<"2", "9">>, <<"3", "1">>, <<"7">>, <<"0", "0">>}
DateMonths == {<<"0", "7">>, <<"0", "2">>, <<"1", "3">>}
DateYears == {<<"2", "5">>, <<"2", "4">>, <<"2">>}
DateHours == {<<"1", "9">>, <<"2", "4">>}
DateMinutes == {<<"5", "8">>, <<"6", "5">>, <<"5">>}

DateBodies ==
    {d \o <<".">> \o m \o <<".">> \o y \o <<" ">> \o h \o <<":">> \o mi :
        d \in DateDays, m \in DateMonths, y \in DateYears,
        h \in DateHours, mi \in DateMinutes}

DateTexts ==
    {pre \o b \o post :
        pre \in {<<>>, MarkerPrefix, MarkerText, MarkerPrefix \o MarkerPrefix},
        b \in DateBodies,
        post \in {<<>>, ZoneSuffix, <<" ", "U", "T", "C">>}}
    \cup SeqsUpTo({" ", "1", ".", "P"}, MaxTextLen)
    \cup {MarkerText \o t : t \in SeqsUpTo({" ", "1", ".", "P"}, MaxTextLen)}

-----------------------------------------------------------------------------
(* Specifications *)

NoDateOut == [raised |-> FALSE, text |-> <<>>]
NoDocOut == [raised |-> FALSE, docs |-> <<>>]

DateIdle == dateIn = <<>> /\ dateOut = NoDateOut /\ datePc = "off"
DocIdle == docPage = DomNoGroup /\ docOut = NoDocOut /\ docPc = "off"
FlowIdle ==
    /\ now = 2025
    /\ pages = [p \in PageIds |-> NoPage]
    /\ nPages = 0
    /\ pc = [r \in Requests |-> "off"]
    /\ args = [r \in Requests |-> NoArgs]
    /\ locals = [r \in Requests |-> NoLocals]
    /\ pw = [r \in Requests |-> "none"]
    /\ browser = [r \in Requests |-> "none"]
    /\ calls = [r \in Requests |-> <<>>]
    /\ err = [r \in Requests |-> ""]
    /\ response = [r \in Requests |-> NoResponse]

\* ---- the date normalizer on one text ----

InitDate ==
    /\ dateIn \in DateTexts
    /\ dateOut = NoDateOut
    /\ datePc = "ready"
    /\ DocIdle /\ FlowIdle

Normalize ==
    /\ datePc = "ready"
    /\ dateOut' = convert_fia_date_to_iso(dateIn)
    /\ datePc' = "done"
    /\ UNCHANGED <<dateIn, docVars, flowVars>>

NextDate == Normalize

SpecDate == InitDate /\ [][NextDate]_vars

\* ---- the extractor on one page ----

InitDocs ==
    /\ docPage \in DocPages
    /\ docOut = NoDocOut
    /\ docPc = "ready"
    /\ DateIdle /\ FlowIdle

Extract ==
    /\ docPc = "ready"
    /\ docOut' = get_docs(docPage)
    /\ docPc' = "done"
    /\ UNCHANGED <<docPage, dateVars, flowVars>>

NextDocs == Extract

SpecDocs == InitDocs /\ [][NextDocs]_vars

\* ---- one request, with every input ----

InitFlow(started, years) ==
    /\ now \in years
    /\ pages = [p \in PageIds |-> NoPage]
    /\ nPages = 0
    /\ pc = [r \in Requests |-> IF r \in started THEN "idle" ELSE "off"]
    /\ args = [r \in Requests |-> NoArgs]
    /\ locals = [r \in Requests |-> NoLocals]
    /\ pw = [r \in Requests |-> "none"]
    /\ browser = [r \in Requests |-> "none"]
    /\ calls = [r \in Requests |-> <<>>]
    /\ err = [r \in Requests |-> ""]
    /\ response = [r \in Requests |-> NoResponse]
    /\ DateIdle /\ DocIdle

Step(r) ==
    \/ Launch(r)
    \/ NewPage(r)
    \/ WaitForSelector(r)
    \/ SelectSeason(r)
    \/ SelectFallback(r)
    \/ FallbackWait(r)
    \/ SelectChampionship(r)
    \/ SelectEvent(r)
    \/ GetDocs(r)
    \/ Close(r)

Init == InitFlow({1}, ClockYears)

Next ==
    \/ \E r \in Requests : Receive(r, RequestArgs) \/ Goto(r, SitePages) \/ Step(r)
    \/ \E p \in PageIds : Render(p)
    \/ Tick

Spec == Init /\ [][Next]_vars

\* ---- concurrent requests ----

InitConc == InitFlow(Requests, {2025})

NextConc ==
    \/ \E r \in Requests : Receive(r, ConcArgs) \/ Goto(r, ConcPages) \/ Step(r)
    \/ \E p \in PageIds : Render(p)

SpecConc == InitConc /\ [][NextConc]_vars

-----------------------------------------------------------------------------
(* Properties of the orchestration flow *)

IsSelect(c, field) == c.fn = "select" /\ c.field = field
IsExtract(c) == c.fn = "get_docs"

\* the place of a call in NAVIGATED -> SEASON -> CHAMPIONSHIP -> EVENT -> EXTRACTED
Rank(c) ==
    IF IsSelect(c, "Season") THEN 1
    ELSE IF IsSelect(c, "Championship") THEN 2
    ELSE IF IsSelect(c, "Event") THEN 3
    ELSE 4

Count(cs, Test(_)) == Cardinality({i \in 1..Len(cs) : Test(cs[i])})

\* the first dropdown of page p whose placeholder reads field, or 0
FirstControl(p, field) ==
    LET ks == {k \in 1..Len(pages[p].wrappers) :
                  /\ pages[p].wrappers[k].select
                  /\ pages[p].wrappers[k].hasFirst
                  /\ pages[p].wrappers[k].firstText = field}
    IN IF ks = {} THEN 0 ELSE CHOOSE k \in ks : \A j \in ks : k <= j

Ended(r) == pc[r] \in {"returned", "raised"}

\* C1: once navigation and the first wait for the filter UI have succeeded,
\* no run of the flow is ended by an exception: only the launch, the
\* navigation and the first wait can end a run.
CxFlowNeverAborts ==
    \A r \in Requests :
        pc[r] = "raised" => err[r] \in {"launch", "goto", "wait_for_selector"}

\* C2, as claimed: when the first Season selection returns failure for a
\* requested "SEASON Y", the second Season selection is made with "SEASON Y-1".
CxFallbackIsYearBeforeRequested ==
    \A r \in Requests : \A y \in {2026, 2099} :
        (/\ args[r].season = SeasonLabel(y)
         /\ Len(calls[r]) >= 2
         /\ IsSelect(calls[r][1], "Season") /\ calls[r][1].result = "false"
         /\ IsSelect(calls[r][2], "Season"))
        => calls[r][2].label = SeasonLabel(y - 1)

\* C2, amended: when the first Season selection returns failure, the next
\* call is a second Season selection with the label of the year before the
\* calendar year of that moment, whatever season was requested; when that
\* call succeeds the flow's season is the fallback label, and extraction
\* finds the fallback label applied last to the page's Season control.
ThmFallbackIsPreviousCalendarYear ==
    \A r \in Requests :
        (/\ Len(calls[r]) >= 1
         /\ IsSelect(calls[r][1], "Season") /\ calls[r][1].result = "false")
        => /\ pc[r] # "fallback" =>
                /\ Len(calls[r]) >= 2
                /\ IsSelect(calls[r][2], "Season")
                /\ calls[r][2].label = SeasonLabel(calls[r][2].year - 1)
           /\ (Len(calls[r]) >= 2 /\ calls[r][2].result = "true") =>
                /\ locals[r].season = calls[r][2].label
                /\ LET k == FirstControl(locals[r].page, "Season")
                       w == pages[locals[r].page].wrappers[k]
                   IN /\ k # 0
                      /\ w.value = calls[r][2].label
                      /\ w.applied = <<calls[r][2].label>>

\* a request for "SEASON 2099" whose first Season selection returned failure,
\* whose retry with "SEASON 2025" succeeded, and which has extracted
WitFallbackThenExtract ==
    \E r \in Requests :
        /\ args[r].season = SeasonLabel(2099)
        /\ Len(calls[r]) >= 3
        /\ calls[r][1].result = "false"
        /\ calls[r][2] = CallOf("select", "Season", SeasonLabel(2025), "true")
        /\ IsExtract(calls[r][Len(calls[r])])
        /\ pc[r] = "returned"

\* C3: the calls of a run follow the state machine: at most two Season
\* selections, the second only after the first returned failure, then at most
\* one Championship selection, then at most one Event selection, then the
\* extraction; nothing follows the extraction, and a run that returns has
\* extracted exactly once.
ThmCallsFollowStateMachine ==
    \A r \in Requests :
        LET cs == calls[r]
        IN /\ \A i \in 1..Len(cs) : \A j \in 1..Len(cs) :
                  i < j => Rank(cs[i]) <= Rank(cs[j])
           /\ Count(cs, LAMBDA c : IsSelect(c, "Season")) <= 2
           /\ (Count(cs, LAMBDA c : IsSelect(c, "Season")) = 2
                  => cs[1].result = "false")
           /\ Count(cs, LAMBDA c : IsSelect(c, "Championship")) <= 1
           /\ Count(cs, LAMBDA c : IsSelect(c, "Event")) <= 1
           /\ Count(cs, IsExtract) <= 1
           /\ \A i \in 1..Len(cs) : IsExtract(cs[i]) => i = Len(cs)
           /\ pc[r] = "returned" => Count(cs, IsExtract) = 1

\* a run that returned after two Season, one Championship and one Event
\* selection and the extraction
WitAllCallsMade ==
    \E r \in Requests :
        /\ pc[r] = "returned"
        /\ Len(calls[r]) = 5
        /\ IsSelect(calls[r][2], "Season")
        /\ IsSelect(calls[r][3], "Championship")
        /\ IsSelect(calls[r][4], "Event")
        /\ IsExtract(calls[r][5])

\* C4: a request whose event is empty or absent never calls the selector for
\* Event, and nothing is applied to the page's Event control: it shows what
\* the site served.
ThmEmptyEventSkipsSelection ==
    \A r \in Requests :
        args[r].event \in {Absent, ""} =>
            /\ \A i \in 1..Len(calls[r]) : ~IsSelect(calls[r][i], "Event")
            /\ locals[r].page # 0 =>
                  \A k \in 1..Len(pages[locals[r].page].wrappers) :
                      LET w == pages[locals[r].page].wrappers[k]
                      IN (w.select /\ w.hasFirst /\ w.firstText = "Event")
                             => w.applied = <<>> /\ w.value = "Event"

\* a request with event="" that returned after selecting a season and a
\* championship on a page that has an Event control
WitEmptyEventRun ==
    \E r \in Requests :
        /\ pc[r] = "returned"
        /\ args[r].event = ""
        /\ Len(calls[r]) = 3
        /\ calls[r][1].result = "true"
        /\ calls[r][2].result = "true"
        /\ FirstControl(locals[r].page, "Event") # 0

\* C5: select never raises: every call returns success or failure.
CxSelectNeverRaises ==
    \A r \in Requests : \A i \in 1..Len(calls[r]) :
        calls[r][i].fn = "select" => calls[r][i].result \in {"true", "false"}

\* C10: a page is navigated, changed and read only by the request that
\* created it, no two requests hold the same page, and a request that has
\* ended, by returning or by an exception, has left no browser open.
ThmOwnPageAndTeardown ==
    /\ \A p \in PageIds : pages[p].touchedBy \subseteq {pages[p].creator}
    /\ \A r \in Requests : \A q \in Requests :
          (r # q /\ locals[r].page # 0) => locals[r].page # locals[q].page
    /\ \A r \in Requests :
          locals[r].page # 0 => pages[locals[r].page].creator = r
    /\ \A r \in Requests :
          Ended(r) => browser[r] # "open" /\ pw[r] # "running"

\* two requests that ran concurrently, one returned and one ended by an
\* exception of a selection, each having used its page
WitConcurrentEnds ==
    \E r \in Requests : \E q \in Requests :
        /\ pc[r] = "returned" /\ pc[q] = "raised" /\ err[q] = "select"
        /\ browser[r] = "closed" /\ browser[q] = "closed"
        /\ pages[locals[r].page].touchedBy = {r}
        /\ pages[locals[q].page].touchedBy = {q}

-----------------------------------------------------------------------------
(* Properties of the extractor *)

\* the trimmed title is not empty: the title has a character that is no blank
HasTitle(item) ==
    /\ item.title.some
    /\ \E k \in 1..Len(item.title.text) : item.title.text[k] \notin WS

\* the positions of the items that have a title, in page order
RECURSIVE TitledFrom(_, _)
TitledFrom(items, k) ==
    IF k > Len(items) THEN <<>>
    ELSE (IF HasTitle(items[k]) THEN <<k>> ELSE <<>>) \o TitledFrom(items, k + 1)

Extracted == docPc = "done" /\ ~docOut.raised

\* C6: extract returns normally on every page, and the first element of its
\* result is the metadata record.
CxExtractAlwaysReturns ==
    docPc = "done" =>
        /\ ~docOut.raised
        /\ Len(docOut.docs) >= 1
        /\ DOMAIN docOut.docs[1] = {"season_year", "gp_name"}

\* C7: the records after the metadata record are the items with a non-empty
\* trimmed title, one record each, in page order.
ThmRecordsAreTitledItems ==
    Extracted =>
        LET recs == Tail(docOut.docs)
            idx == TitledFrom(docPage.items, 1)
        IN /\ Len(recs) = Len(idx)
           /\ \A k \in 1..Len(recs) :
                 /\ recs[k].title = Strip(docPage.items[idx[k]].title.text)
                 /\ recs[k].title # <<>>
                 /\ recs[k].published = StrippedText(docPage.items[idx[k]].published)

\* an untitled item followed by a titled one: one record comes out
WitDroppedThenKept ==
    /\ Extracted
    /\ Len(docPage.items) = 2
    /\ ~HasTitle(docPage.items[1]) /\ docPage.items[1].title.some
    /\ HasTitle(docPage.items[2])
    /\ Len(docOut.docs) = 2

\* the url the claim gives an item
ClaimedUrl(item) ==
    IF item.anchor = "href" /\ Len(item.href) > 0 /\ item.href[1] = "/"
    THEN Some(FIA_ORIGIN \o item.href)
    ELSE IF item.anchor = "href" THEN Some(item.href)
    ELSE IF item.anchor = "none" THEN Some(<<>>)
    ELSE None

\* C8: a record's url is the site origin followed by the href when the href
\* starts with "/", the href unchanged otherwise, and never starts with "/".
ThmUrlsResolved ==
    Extracted =>
        LET recs == Tail(docOut.docs)
            idx == TitledFrom(docPage.items, 1)
        IN /\ Len(recs) = Len(idx)
           /\ \A k \in 1..Len(recs) :
                 /\ recs[k].url = ClaimedUrl(docPage.items[idx[k]])
                 /\ ~(recs[k].url.text # <<>> /\ recs[k].url.text[1] = "/")

\* a titled item with href "/d" came out with the origin before it
WitRelativeHref ==
    /\ Extracted
    /\ Len(docPage.items) >= 1
    /\ docPage.items[1].anchor = "href" /\ docPage.items[1].href = <<"/", "d">>
    /\ HasTitle(docPage.items[1])
    /\ docOut.docs[2].url = Some(FIA_ORIGIN \o <<"/", "d">>)

-----------------------------------------------------------------------------
(* Properties of the normalizer *)

\* C9: normalize never raises; it is the identity on a text without the
\* marker and on a text with the marker whose remainder does not parse, and
\* whenever it changes the text, the text holds the marker and its remainder
\* parses.
ThmNormalizeFallsBack ==
    datePc = "done" =>
        /\ ~dateOut.raised
        /\ ~Contains(dateIn, MarkerText) => dateOut.text = dateIn
        /\ (Contains(dateIn, MarkerText) /\ ~Strptime(DatePart(dateIn)).ok)
              => dateOut.text = dateIn
        /\ dateOut.text # dateIn =>
              /\ Contains(dateIn, MarkerText)
              /\ Strptime(DatePart(dateIn)).ok

\* "Published on 31.02.25 19:58 CET": the marker, and a day February lacks
WitUnparsableRemainder ==
    /\ datePc = "done"
    /\ dateIn = MarkerPrefix
                \o <<"3", "1", ".", "0", "2", ".", "2", "5", " ", "1", "9", ":", "5", "8">>
                \o ZoneSuffix
    /\ dateOut.text = dateIn

====
